---- MODULE Spec2Model ----
(***************************************************************************)
(* Bidirectional replication between the MongoDB collection of one         *)
(* Mongoose model (the primary store) and the Firestore collection of the  *)
(* same name (the secondary store): sync/mongoToFirestore.js               *)
(* (syncModelToFirestore) and sync/firestoreToMongo.js                     *)
(* (syncFirestoreToMongo), started in that order by server.js.             *)
(*                                                                         *)
(* A stored record is abstracted to one payload field `val` (standing for  *)
(* the schema's declared fields), the key fields (`_id`, `__v`, `id`) and  *)
(* the provenance field `_syncedFrom`.  "none" is an absent field.         *)
(***************************************************************************)
EXTENDS Integers, Sequences, FiniteSets, TLC

\* ------------------------------------------------------------------ bounds
MaxOps == 2          \* local (non-replicator) writes issued in one behaviour
MaxVal == 2          \* distinct payload values 1..MaxVal
MaxMint == 2         \* ObjectIds the primary store generates in one behaviour
MaxRuns == 2         \* process starts in the restart specification
MaxDocs == 2         \* records a start-up scan returns
MaxLen == 2          \* elements of an array inside a record
MaxReqs == 2         \* HTTP requests received in one behaviour

\* ------------------------------------------------------------------- keys
\* Keys are named by short strings; KeyChars gives the characters of the key.
Rep(c, n) == [i \in 1..n |-> c]

HexBlock == <<"a", "1", "b", "2", "c", "3", "d", "4", "e", "5", "f", "6">>

HexKeys == {"h1", "h2", "h3"}
TextKeys == {"t17"}
MintKeys == {"m1", "m2"}
PKeys == HexKeys \cup MintKeys
SKeys == HexKeys \cup TextKeys \cup MintKeys
KeyOrder == <<"h1", "h2", "h3", "m1", "m2", "t17">>

KeyChars(k) ==
  CASE k = "h1" -> HexBlock \o HexBlock
    [] k = "h2" -> <<"A", "F">> \o Rep("0", 22)
    [] k = "h3" -> Rep("9", 23) \o <<"c">>
    [] k = "m1" -> Rep("6", 23) \o <<"1">>
    [] k = "m2" -> Rep("6", 23) \o <<"2">>
    [] k = "t17" -> <<"t", "e", "a", "c", "h", "e", "r", "-", "f", "a", "l", "l",
                      "-", "2", "0", "2", "4">>

HexDigits == {"0", "1", "2", "3", "4", "5", "6", "7", "8", "9",
              "a", "b", "c", "d", "e", "f", "A", "B", "C", "D", "E", "F"}

ObjectIdLen == 24

\* the printable ASCII characters in the order of their codes, from 32 (the
\* double quote, the backslash and the backtick by name)
Ascii ==
  <<" ", "!", "quote", "#", "$", "%", "&", "'", "(", ")", "*", "+", ",", "-", ".",
    "/", "0", "1", "2", "3", "4", "5", "6", "7", "8", "9", ":", ";", "<", "=",
    ">", "?", "@", "A", "B", "C", "D", "E", "F", "G", "H", "I", "J", "K", "L",
    "M", "N", "O", "P", "Q", "R", "S", "T", "U", "V", "W", "X", "Y", "Z", "[",
    "backslash", "]", "^", "_", "backtick", "a", "b", "c", "d", "e", "f", "g", "h", "i", "j",
    "k", "l", "m", "n", "o", "p", "q", "r", "s", "t", "u", "v", "w", "x", "y",
    "z", "{", "|", "}", "~">>

CharCode ==
  [c \in {Ascii[i] : i \in 1..Len(Ascii)} |->
     31 + CHOOSE i \in 1..Len(Ascii) : Ascii[i] = c]

\* a character of a class range lo-hi of a regular expression
InRange(c, lo, hi) == CharCode[lo] <= CharCode[c] /\ CharCode[c] <= CharCode[hi]

\* [0-9a-fA-F]
HexClass ==
  {c \in DOMAIN CharCode :
     InRange(c, "0", "9") \/ InRange(c, "a", "f") \/ InRange(c, "A", "F")}

RECURSIVE MatchRest(_, _, _, _)
\* the match of class{n}$ at position i of str: n characters of the class,
\* then the end of the input
MatchRest(class, str, i, n) ==
  IF n = 0 THEN i = Len(str) + 1
  ELSE /\ i <= Len(str)
       /\ str[i] \in class
       /\ MatchRest(class, str, i + 1, n - 1)

\* /^[0-9a-fA-F]{24}$/.test(docId) of the backfill loop
BackfillKeyTest(docId) == MatchRest(HexClass, docId, 1, ObjectIdLen)

\* (variant: the class lacks the range A-F)
LiveKeyTestLower(id) ==
  MatchRest({c \in DOMAIN CharCode :
               InRange(c, "0", "9") \/ InRange(c, "a", "f")},
            id, 1, ObjectIdLen)
\* /^[0-9a-fA-F]{24}$/.test(id) of the docChange handler
LiveKeyTest(id) == MatchRest(HexClass, id, 1, ObjectIdLen)

\* the tests on the keys of the stores, by the name of the key
BackfillKeyTests == [k \in SKeys |-> BackfillKeyTest(KeyChars(k))]
LiveKeyTests == [k \in SKeys |-> LiveKeyTest(KeyChars(k))]

\* the test of the backfill loop on the key named id
isValidObjectId(id) == BackfillKeyTests[id]

\* the test of the docChange handler on the key named id
isValidObjectIdLive(id) == LiveKeyTests[id]

\* (variant: findById finds nothing for a string that is no ObjectId)
CastsToObjectIdAlways(id) == TRUE
\* Mongoose casts the argument of findById to the type of _id (ObjectId); a
\* string that is not a 24-character hexadecimal token fails the cast and the
\* query rejects with a CastError.
CastsToObjectId(id) ==
  /\ Len(KeyChars(id)) = ObjectIdLen
  /\ \A i \in 1..Len(KeyChars(id)) : KeyChars(id)[i] \in HexDigits

\* the n-th ObjectId generated by the primary store for a record created
\* without _id
MintKey(n) == IF n = 1 THEN "m1" ELSE "m2"

\* ------------------------------------------------------------- documents
Vals == 1..MaxVal
Tags == {"none", "mongo", "firestore"}
NoDoc == [nodoc |-> TRUE]
NoVal == 0           \* the payload field is absent

\* paths declared by the Mongoose schema of the collection (models/Student.js,
\* models/StudentTestAttempt.js): the payload fields, never _syncedFrom
SchemaPaths == {"val"}

\* Mongoose strict mode: a field that is not a schema path is not stored
StrictTag(tag) == IF "_syncedFrom" \in SchemaPaths THEN tag ELSE "none"

\* a primary record as stored (and as returned by .lean())
PRec(k, v, tag) == [_id |-> k, __v |-> 0, val |-> v, _syncedFrom |-> tag]

\* a secondary document's data
SDoc(id, v, tag, by) == [id |-> id, val |-> v, _syncedFrom |-> tag, by |-> by]

\* cleanDocument(doc): drop __v and _id, put id = _id.toString() first, keep
\* the rest; cleanDocument(null) is {}
\* (variant: the record is spread as it is, no id is derived from _id)
cleanDocumentNoId(doc) ==
  IF doc = NoDoc THEN [id |-> "none", val |-> NoVal, _syncedFrom |-> "none"]
  ELSE [id |-> "none", val |-> doc.val, _syncedFrom |-> doc._syncedFrom]
cleanDocument(doc) ==
  IF doc = NoDoc THEN [id |-> "none", val |-> NoVal, _syncedFrom |-> "none"]
  ELSE [id |-> doc._id, val |-> doc.val, _syncedFrom |-> doc._syncedFrom]

\* { ...cleanDocument(d), _syncedFrom: "mongo" }
\* (variant: the spread without the _syncedFrom override)
MongoStampUnstamped(d) == [id |-> cleanDocument(d).id, val |-> cleanDocument(d).val,
                          _syncedFrom |-> cleanDocument(d)._syncedFrom, by |-> "m2f"]
MongoStamp(d) == [id |-> cleanDocument(d).id, val |-> cleanDocument(d).val,
                  _syncedFrom |-> "mongo", by |-> "m2f"]

\* cleanFirestoreDoc(doc): doc.data() without the top-level id
cleanFirestoreDoc(doc) == [val |-> doc.val, _syncedFrom |-> doc._syncedFrom]

\* a field value that is an object graph with a cycle (a Firestore
\* DocumentReference holds its Firestore instance): cleanObject recurses into
\* every object that is not an array, so the call ends in a RangeError
RefVal == -1

cleanFirestoreDocThrows(doc) == doc.val = RefVal

\* the data of a document as a listener or a get() sees it (the writer is not
\* part of the data)
SameData(d1, d2) ==
  \/ d1 = NoDoc /\ d2 = NoDoc
  \/ /\ d1 # NoDoc /\ d2 # NoDoc
     /\ d1.id = d2.id /\ d1.val = d2.val /\ d1._syncedFrom = d2._syncedFrom

\* ------------------------------------------------------------------ state
VARIABLES
  primary,      \* MongoDB collection: key -> record or NoDoc
  secondary,    \* Firestore collection: key -> document data or NoDoc
  pc,           \* position of the startup sequence (server.js 46-53)
  scan,         \* records of the backfill scan not yet processed
  m2fAttached,  \* changeStream.on("change") registered
  f2mAttached,  \* collectionRef.onSnapshot registered
  primFeed,     \* change-stream events not yet dispatched
  secFeed,      \* docChanges not yet dispatched
  m2fH,         \* change handlers in flight (suspended at an await)
  f2mH,         \* docChange handlers in flight (suspended at an await)
  minted,       \* ObjectIds generated so far
  ops,          \* local writes issued so far
  serial,       \* every local write so far was untagged and issued at rest
  runs,         \* process starts so far
  passWrites,   \* destination writes of the backfill passes of this start
  prevPass,     \* destination writes and states of the passes of the last start
  last,         \* what the last step did
  boot,         \* startup of the bindings: position and state of each sync
  calc,         \* a conversion applied on its own: function, argument, result
  web           \* the HTTP routes: their records and the requests in flight

vars == <<primary, secondary, pc, scan, m2fAttached, f2mAttached, primFeed,
          secFeed, m2fH, f2mH, minted, ops, serial, runs, passWrites,
          prevPass, last, boot, calc, web>>

\* actor: who took the step; type: the operation or event type; key; by: who
\* produced the event handled; tag: the _syncedFrom of the record handled;
\* out: what the step did; had: the destination record existed when it acted
Step(actor, type, key, by, tag, out, had) ==
  [actor |-> actor, type |-> type, key |-> key, by |-> by, tag |-> tag,
   out |-> out, had |-> had]

NoStep == Step("none", "none", "none", "none", "none", "none", FALSE)

NoPass == [m2f |-> 0, f2m |-> 0]

\* no event is pending and no handler is in flight
Drained == primFeed = <<>> /\ secFeed = <<>> /\ m2fH = <<>> /\ f2mH = <<>>

Quiescent == pc = "running" /\ Drained

\* the elements of f (a function on keys) that are records, in KeyOrder
RECURSIVE DocsFrom(_, _)
DocsFrom(f, i) ==
  IF i > Len(KeyOrder) THEN <<>>
  ELSE IF KeyOrder[i] \in DOMAIN f /\ f[KeyOrder[i]] # NoDoc
       THEN <<[key |-> KeyOrder[i], doc |-> f[KeyOrder[i]]]>> \o DocsFrom(f, i + 1)
       ELSE DocsFrom(f, i + 1)

RemoveAt(s, i) == SubSeq(s, 1, i - 1) \o SubSeq(s, i + 1, Len(s))

ReplaceAt(s, i, h) == [s EXCEPT ![i] = h]

\* ------------------------------------------------------ store operations
\* Firestore: a listener gets a docChange for a write that changes the data.
\* by: the writer; hop: the replication writes between the local write that
\* started the chain and this event (0 for the local write's own event)
SecEvent(k, old, new, by, hop) ==
  IF ~f2mAttached \/ SameData(old, new) THEN <<>>
  ELSE IF new = NoDoc
       THEN <<[type |-> "removed", key |-> k, doc |-> old, by |-> by, hop |-> hop]>>
  ELSE IF old = NoDoc
       THEN <<[type |-> "added", key |-> k, doc |-> new, by |-> by, hop |-> hop]>>
  ELSE <<[type |-> "modified", key |-> k, doc |-> new, by |-> by, hop |-> hop]>>

\* ref.set(d) / ref.delete() (d = NoDoc)
SecWrite(k, d, by, hop) ==
  /\ secondary' = [secondary EXCEPT ![k] = d]
  /\ secFeed' = secFeed \o SecEvent(k, secondary[k], d, by, hop)

\* MongoDB: the change stream opened by model.watch() carries fullDocument on
\* insert only (no fullDocument option is passed).  The writes of this
\* repository are inserts, updates and deletes; none replaces a record.
PrimEvent(op, k, full, by, hop) ==
  IF m2fAttached
  THEN <<[op |-> op, key |-> k, full |-> full, by |-> by, hop |-> hop]>>
  ELSE <<>>

PrimInsert(k, v, tag, by, hop) ==
  /\ primary' = [primary EXCEPT ![k] = PRec(k, v, StrictTag(tag))]
  /\ primFeed' = primFeed \o PrimEvent("insert", k, PRec(k, v, StrictTag(tag)), by, hop)

PrimUpdate(k, v, tag, by, hop) ==
  /\ primary' = [primary EXCEPT ![k] = PRec(k, v, StrictTag(tag))]
  /\ primFeed' = primFeed \o PrimEvent("update", k, NoDoc, by, hop)

PrimDelete(k, by, hop) ==
  /\ primary' = [primary EXCEPT ![k] = NoDoc]
  /\ primFeed' = primFeed \o PrimEvent("delete", k, NoDoc, by, hop)

\* a record is stored in the primary collection under k
PrimHas(k) == k \in PKeys /\ primary[k] # NoDoc

\* ------------------------------------------------- startup of the bindings
\* the collections that are replicated, in the order server.js starts them
Bindings == <<"students", "tests", "studentTestAttempts">>

Dirs == {"m2f", "f2m"}

\* startMongoToFirestoreSync runs first, startFirestoreToMongoSync second,
\* app.listen follows
NextDir(d) == IF d = "m2f" THEN "f2m" ELSE "done"

\* dir, idx: the start function and the binding it is at; phase: "scan" at
\* the await of the full scan, "loop" in the loop over its records; left:
\* records of the loop still to process; logged: record errors the loop has
\* caught; status of each sync: "idle", "backfill", "attached", "failed" (its
\* scan was rejected by the store) or "aborted" (an exception left its loop)
BootInit ==
  [dir |-> "m2f", idx |-> 1, phase |-> "scan", left |-> 0, logged |-> 0,
   status |-> [d \in Dirs |-> [i \in 1..Len(Bindings) |-> "idle"]],
   listening |-> FALSE]

\* ------------------------------------------- conversions on structured values
\* A JavaScript value as the conversions see it: t its kind, s its content
\* when it is a scalar, e its entries in order when it is an array or a plain
\* object (k the key, "" in an array; v the value). "oid" is a bson ObjectId
\* (s its 24-hex string), "date" a JavaScript Date, "ts" a Firestore Timestamp
\* as DocumentSnapshot.data() returns it.
Num(s) == [t |-> "num", s |-> s, e |-> <<>>]
Str(s) == [t |-> "str", s |-> s, e |-> <<>>]
Oid(s) == [t |-> "oid", s |-> s, e |-> <<>>]
Date(s) == [t |-> "date", s |-> s, e |-> <<>>]
Ts(s) == [t |-> "ts", s |-> s, e |-> <<>>]
Arr(es) == [t |-> "arr", s |-> "", e |-> es]
Obj(es) == [t |-> "obj", s |-> "", e |-> es]
Entry(k, v) == [k |-> k, v |-> v]
Elem(v) == Entry("", v)

Keys(x) == {x.e[i].k : i \in 1..Len(x.e)}
Get(x, key) == x.e[CHOOSE i \in 1..Len(x.e) : x.e[i].k = key].v
\* the entries of es without the keys of ks (the rest of a destructuring)
Omit(es, ks) == SelectSeq(es, LAMBDA en : en.k \notin ks)

RECURSIVE cleanObject(_)
\* cleanObject of cleanDocument: an ObjectId becomes its string, an array is
\* mapped, a Date is returned, any other object is rebuilt entry by entry
cleanObject(obj) ==
  CASE obj.t = "oid" -> Str(obj.s)
    [] obj.t = "arr" ->
         Arr([i \in 1..Len(obj.e) |-> Elem(cleanObject(obj.e[i].v))])
    [] obj.t = "date" -> obj
    [] obj.t = "obj" ->
         Obj([i \in 1..Len(obj.e) |->
                Entry(obj.e[i].k, cleanObject(obj.e[i].v))])
    [] OTHER -> obj

\* cleanDocument on a lean record with its nested values: __v and _id are
\* taken off the record itself, id is the string of _id unless the rest has
\* an id of its own, and cleanObject runs over the result
cleanDocumentDeep(doc) ==
  LET rest == Omit(doc.e, {"__v", "_id"})
      id == IF \E i \in 1..Len(rest) : rest[i].k = "id"
            THEN Get(Obj(rest), "id")
            ELSE Str(Get(doc, "_id").s)
      cleaned == Obj(<<Entry("id", id)>> \o Omit(rest, {"id"}))
  IN  cleanObject(cleaned)

\* values of a record's field: scalars, a reference, a timestamp
Leaves == {Num("1"), Str("a"), Oid("h2"), Date("d1")}

\* a nested mapping: a subdocument with or without its own _id and __v
SubDoc(leaf, hasId, hasV) ==
  Obj((IF hasId THEN <<Entry("_id", Oid("h3"))>> ELSE <<>>)
      \o <<Entry("x", leaf)>>
      \o (IF hasV THEN <<Entry("__v", Num("0"))>> ELSE <<>>))

SubDocs == {SubDoc(l, i, v) : l \in Leaves, i \in BOOLEAN, v \in BOOLEAN}

SeqsUpTo(S, n) == UNION {[1..m -> S] : m \in 0..n}

Arrays ==
  {Arr([i \in 1..Len(s) |-> Elem(s[i])]) :
     s \in SeqsUpTo(Leaves \cup SubDocs, MaxLen)}

\* the lean records cleanDocument is applied to: _id, one field and __v
Records ==
  {Obj(<<Entry("_id", Oid("h1")), Entry("f", x), Entry("__v", Num("0"))>>) :
     x \in Leaves \cup SubDocs \cup Arrays}

RECURSIVE cleanFirestoreObject(_)
\* cleanObject of cleanFirestoreDoc: an array is mapped and every other object,
\* a Timestamp too, is rebuilt from Object.entries; an _id or createdBy that is
\* a string is copied, as every string is
cleanFirestoreObject(obj) ==
  CASE obj.t = "arr" ->
         Arr([i \in 1..Len(obj.e) |-> Elem(cleanFirestoreObject(obj.e[i].v))])
    [] obj.t = "obj" ->
         Obj([i \in 1..Len(obj.e) |->
                IF obj.e[i].k \in {"_id", "createdBy"} /\ obj.e[i].v.t = "str"
                THEN obj.e[i]
                ELSE Entry(obj.e[i].k, cleanFirestoreObject(obj.e[i].v))])
    [] obj.t = "ts" ->
         Obj(<<Entry("_seconds", Num(obj.s)), Entry("_nanoseconds", Num("0"))>>)
    [] OTHER -> obj

\* cleanFirestoreDoc on the data of a snapshot with its nested values
cleanFirestoreDocDeep(data) ==
  cleanFirestoreObject(Obj(Omit(data.e, {"id"})))

\* values of a document's field: scalars and a Firestore timestamp
FireLeaves == {Num("1"), Str("a"), Ts("d1")}

\* a nested mapping with or without string identifier fields
FireSubDoc(leaf, hasId, hasBy) ==
  Obj((IF hasId THEN <<Entry("_id", Str("h3"))>> ELSE <<>>)
      \o <<Entry("x", leaf)>>
      \o (IF hasBy THEN <<Entry("createdBy", Str("h2"))>> ELSE <<>>))

FireSubDocs ==
  {FireSubDoc(l, i, b) : l \in FireLeaves, i \in BOOLEAN, b \in BOOLEAN}

FireArrays ==
  {Arr([i \in 1..Len(s) |-> Elem(s[i])]) :
     s \in SeqsUpTo(FireLeaves \cup FireSubDocs, MaxLen)}

\* the data of the snapshots cleanFirestoreDoc is applied to: documents the
\* replicator wrote carry an id field, documents of clients need not
FireDocs ==
  {Obj((IF hasId THEN <<Entry("id", Str("h1"))>> ELSE <<>>)
       \o <<Entry("f", x)>>) :
     hasId \in BOOLEAN, x \in FireLeaves \cup FireSubDocs \cup FireArrays}

\* a string given by its characters, and the characters of such a string
Text(chars) == Arr([i \in 1..Len(chars) |-> Elem(Str(chars[i]))])
CharsOf(x) == [i \in 1..Len(x.e) |-> x.e[i].v.s]
Bool(b) == [t |-> "bool", s |-> IF b THEN "true" ELSE "false", e |-> <<>>]

\* characters at the ends of the ranges of the class and next to them
EdgeChars ==
  {"/", "0", "9", ":", "@", "A", "F", "G", "backtick", "a", "f", "g", "-", " "}

\* document keys: the keys of the stores, and strings of a digit, one short
\* of, of and one over the length of an ObjectId, with one character replaced
DocKeys ==
  {KeyChars(k) : k \in SKeys} \cup {<<>>}
  \cup {[Rep(c, n) EXCEPT ![p] = d] :
          c \in {"0", "b", "E"}, d \in EdgeChars,
          n \in (ObjectIdLen - 1)..(ObjectIdLen + 1), p \in {1, ObjectIdLen - 1}}

\* no conversion is being applied
NoCalc == [fn |-> "none", arg |-> Num("0"), res |-> Num("0"), done |-> TRUE]

\* ------------------------------------------------------- the HTTP routes
\* max 3 resends (auth.js 697)
ResendMax == 3

\* one-time passcodes, as Math.random may draw them
Codes == {"c1", "c2"}

\* The pending registration a client holds the pendingId of: exists; otp the
\* passcode whose hash is stored; age of the last send: "fresh" (less than a
\* minute), "cool" (more, and otpExpiresAt not reached) or "expired";
\* resendCount as stored.
Pending(otp, age, n) ==
  [exists |-> TRUE, otp |-> otp, age |-> age, resendCount |-> n]
NoPending == [exists |-> FALSE, otp |-> "none", age |-> "none", resendCount |-> 0]

\* a request in flight: the route, the await it is at, the argument of the
\* request body the model follows (register-verify's otp, the kind of value
\* in the quiz submission's studentId; a resend keeps its new passcode here),
\* and the pending document as the handler has read it
Handler(op, arg) ==
  [op |-> op, pc |-> "find", arg |-> arg, seen |-> NoPending]

\* pend: the pending registration; student: a Student with its email or
\* studentID exists; made: Students created from it by register-verify;
\* resent: resend requests answered 200; attempts: StudentTestAttempt records
\* of one (student, test) pair; test: the Test of that pair exists; hs: the
\* requests received, an answered one at "done"; reqs: their number; out: the
\* route and status of the last response, with the document its handler had
\* read
NoWeb ==
  [pend |-> NoPending, student |-> FALSE, made |-> 0, resent |-> 0,
   attempts |-> 0, test |-> FALSE, hs |-> <<>>, reqs |-> 0,
   out |-> [op |-> "none", status |-> 0, arg |-> "none", seen |-> NoPending]]

\* the state when server.js runs on empty stores
InitStores ==
  /\ primary = [k \in PKeys |-> NoDoc]
  /\ secondary = [k \in SKeys |-> NoDoc]
  /\ pc = "m2fFind"
  /\ scan = <<>>
  /\ m2fAttached = FALSE
  /\ f2mAttached = FALSE
  /\ primFeed = <<>>
  /\ secFeed = <<>>
  /\ m2fH = <<>>
  /\ f2mH = <<>>
  /\ minted = 0
  /\ ops = 0
  /\ serial = TRUE
  /\ runs = 1
  /\ passWrites = NoPass
  /\ prevPass = NoDoc
  /\ last = NoStep
  /\ boot = BootInit

Init == InitStores /\ calc = NoCalc /\ web = NoWeb

\* ------------------------------------------------------- local writes
\* keys the clients of the secondary store write to
ClientKeys == {"h1", "t17"}

LocalCount(tagged) ==
  /\ ops < MaxOps
  /\ ops' = ops + 1
  /\ serial' = (serial /\ Quiescent /\ ~tagged)

\* the backend creates a record (Student.create, attempt.save): the primary
\* store generates the key
LocalPrimaryCreate(v) ==
  /\ LocalCount(FALSE)
  /\ minted < MaxMint
  /\ minted' = minted + 1
  /\ PrimInsert(MintKey(minted + 1), v, "none", "local", 0)
  /\ last' = Step("local", "insert", MintKey(minted + 1), "local", "none", "create", FALSE)
  /\ UNCHANGED <<secondary, pc, scan, m2fAttached, f2mAttached, secFeed, m2fH,
                 f2mH, runs, passWrites, prevPass, boot, calc, web>>

\* the backend changes a record (student.save)
LocalPrimaryUpdate(k, v) ==
  /\ LocalCount(FALSE)
  /\ primary[k] # NoDoc
  /\ primary[k].val # v
  /\ PrimUpdate(k, v, primary[k]._syncedFrom, "local", 0)
  /\ last' = Step("local", "update", k, "local", "none", "update", FALSE)
  /\ UNCHANGED <<secondary, pc, scan, m2fAttached, f2mAttached, secFeed, m2fH,
                 f2mH, minted, runs, passWrites, prevPass, boot, calc, web>>

\* the backend deletes a record (StudentTestAttempt.findByIdAndDelete)
LocalPrimaryDelete(k) ==
  /\ LocalCount(FALSE)
  /\ primary[k] # NoDoc
  /\ PrimDelete(k, "local", 0)
  /\ last' = Step("local", "delete", k, "local", "none", "delete", FALSE)
  /\ UNCHANGED <<secondary, pc, scan, m2fAttached, f2mAttached, secFeed, m2fH,
                 f2mH, minted, runs, passWrites, prevPass, boot, calc, web>>

\* a client writes a whole document, ref.set(data); data may carry a
\* _syncedFrom of the client's choice (routes/TestRoutes.js 132-133 writes
\* _syncedFrom: "mongo" itself)
LocalSecondarySet(k, v, tag) ==
  /\ LocalCount(tag # "none")
  /\ k \in ClientKeys \/ secondary[k] # NoDoc
  /\ ~SameData(secondary[k], SDoc("none", v, tag, "local"))
  /\ SecWrite(k, SDoc("none", v, tag, IF tag = "none" THEN "local" ELSE "localTagged"),
              IF tag = "none" THEN "local" ELSE "localTagged", 0)
  /\ last' = Step("local", "set", k, "local", tag, "set", FALSE)
  /\ UNCHANGED <<primary, pc, scan, m2fAttached, f2mAttached, primFeed, m2fH,
                 f2mH, minted, runs, passWrites, prevPass, boot, calc, web>>

\* a client changes fields of an existing document, ref.update({val: v}): the
\* other fields, the stored _syncedFrom among them, stay
LocalSecondaryUpdate(k, v) ==
  /\ LocalCount(FALSE)
  /\ secondary[k] # NoDoc
  /\ secondary[k].val # v
  /\ SecWrite(k, SDoc(secondary[k].id, v, secondary[k]._syncedFrom, "local"), "local", 0)
  /\ last' = Step("local", "update", k, "local", "none", "update", FALSE)
  /\ UNCHANGED <<primary, pc, scan, m2fAttached, f2mAttached, primFeed, m2fH,
                 f2mH, minted, runs, passWrites, prevPass, boot, calc, web>>

\* a client deletes a document, ref.delete()
LocalSecondaryDelete(k) ==
  /\ LocalCount(FALSE)
  /\ secondary[k] # NoDoc
  /\ SecWrite(k, NoDoc, "local", 0)
  /\ last' = Step("local", "delete", k, "local", "none", "delete", FALSE)
  /\ UNCHANGED <<primary, pc, scan, m2fAttached, f2mAttached, primFeed, m2fH,
                 f2mH, minted, runs, passWrites, prevPass, boot, calc, web>>

LocalWrite ==
  \/ \E v \in Vals : LocalPrimaryCreate(v)
  \/ \E k \in PKeys, v \in Vals : LocalPrimaryUpdate(k, v)
  \/ \E k \in PKeys : LocalPrimaryDelete(k)
  \/ \E k \in SKeys, v \in Vals, tag \in Tags : LocalSecondarySet(k, v, tag)
  \/ \E k \in SKeys, v \in Vals : LocalSecondaryUpdate(k, v)
  \/ \E k \in SKeys : LocalSecondaryDelete(k)

\* ------------------------------------- syncModelToFirestore: initial sync
\* const allDocs = await model.find().lean()
\* (variant: the change stream is opened before the initial sync)
M2FFindWatchFirst ==
  /\ pc = "m2fFind"
  /\ scan' = DocsFrom(primary, 1)
  /\ pc' = "m2fGet"
  /\ m2fAttached' = TRUE
  /\ last' = Step("orch", "find", "none", "none", "none", "none", FALSE)
  /\ UNCHANGED <<primary, secondary, f2mAttached, primFeed, secFeed,
                 m2fH, f2mH, minted, ops, serial, runs, passWrites, prevPass, boot, calc, web>>

M2FFind ==
  /\ pc = "m2fFind"
  /\ scan' = DocsFrom(primary, 1)
  /\ pc' = "m2fGet"
  /\ last' = Step("orch", "find", "none", "none", "none", "none", FALSE)
  /\ UNCHANGED <<primary, secondary, m2fAttached, f2mAttached, primFeed, secFeed,
                 m2fH, f2mH, minted, ops, serial, runs, passWrites, prevPass, boot, calc, web>>

\* const docSnap = await ref.get(); if (!docSnap.exists) ...
M2FGet ==
  /\ pc = "m2fGet"
  /\ scan # <<>>
  /\ IF secondary[Head(scan).key] # NoDoc
     THEN /\ scan' = Tail(scan)
          /\ pc' = pc
          /\ last' = Step("m2fBackfill", "get", Head(scan).key, "none",
                          Head(scan).doc._syncedFrom, "exists", TRUE)
     ELSE /\ scan' = scan
          /\ pc' = "m2fSet"
          /\ last' = Step("m2fBackfill", "get", Head(scan).key, "none",
                          Head(scan).doc._syncedFrom, "absent", FALSE)
  /\ UNCHANGED <<primary, secondary, m2fAttached, f2mAttached, primFeed, secFeed,
                 m2fH, f2mH, minted, ops, serial, runs, passWrites, prevPass, boot, calc, web>>

\* await ref.set({ ...cleanDocument(d), _syncedFrom: "mongo" })
M2FSet ==
  /\ pc = "m2fSet"
  /\ SecWrite(Head(scan).key, MongoStamp(Head(scan).doc), "m2f", 1)
  /\ scan' = Tail(scan)
  /\ pc' = "m2fGet"
  /\ passWrites' = [passWrites EXCEPT !.m2f = 1]
  /\ last' = Step("m2fBackfill", "set", Head(scan).key, "none",
                  Head(scan).doc._syncedFrom, "set",
                  secondary[Head(scan).key] # NoDoc)
  /\ UNCHANGED <<primary, m2fAttached, f2mAttached, primFeed, m2fH, f2mH, minted,
                 ops, serial, runs, prevPass, boot, calc, web>>

\* const changeStream = model.watch(); changeStream.on("change", ...), reached
\* when the loop over allDocs has ended; startFirestoreToMongoSync follows
M2FWatch ==
  /\ pc = "m2fGet"
  /\ scan = <<>>
  /\ m2fAttached' = TRUE
  /\ pc' = "f2mGet"
  /\ last' = Step("orch", "watch", "none", "none", "none", "none", FALSE)
  /\ UNCHANGED <<primary, secondary, scan, f2mAttached, primFeed, secFeed, m2fH,
                 f2mH, minted, ops, serial, runs, passWrites, prevPass, boot, calc, web>>

\* ---------------------------------- syncFirestoreToMongo: initial snapshot
\* const snapshot = await collectionRef.get()
F2MGet ==
  /\ pc = "f2mGet"
  /\ scan' = DocsFrom(secondary, 1)
  /\ pc' = "f2mFind"
  /\ last' = Step("orch", "get", "none", "none", "none", "none", FALSE)
  /\ UNCHANGED <<primary, secondary, m2fAttached, f2mAttached, primFeed, secFeed,
                 m2fH, f2mH, minted, ops, serial, runs, passWrites, prevPass, boot, calc, web>>

\* (variant: the loop never skips a document)
F2MLoopSkipsNever(rawData) == FALSE
\* rawData._syncedFrom === "mongo": the loop goes on to the next document
F2MLoopSkips(rawData) == rawData._syncedFrom = "mongo"

\* if (rawData._syncedFrom === "mongo") continue;
\* const data = cleanFirestoreDoc(doc);
\* try { const existing = await model.findById(docId); ...
F2MFind ==
  /\ pc = "f2mFind"
  /\ scan # <<>>
  /\ F2MLoopSkips(Head(scan).doc) \/ ~cleanFirestoreDocThrows(Head(scan).doc)
  /\ LET k == Head(scan).key
         d == Head(scan).doc
     IN IF F2MLoopSkips(d)
        THEN /\ scan' = Tail(scan)
             /\ pc' = pc
             /\ last' = Step("f2mBackfill", "find", k, "none", d._syncedFrom,
                             "skip", PrimHas(k))
        ELSE IF ~CastsToObjectId(k)
        THEN /\ scan' = Tail(scan)
             /\ pc' = pc
             /\ last' = Step("f2mBackfill", "find", k, "none", d._syncedFrom,
                             "error", FALSE)
        ELSE /\ scan' = scan
             /\ pc' = IF ~PrimHas(k) THEN "f2mCreate" ELSE "f2mUpdate"
             /\ last' = Step("f2mBackfill", "find", k, "none", d._syncedFrom,
                             "found", PrimHas(k))
  /\ UNCHANGED <<primary, secondary, m2fAttached, f2mAttached, primFeed, secFeed,
                 m2fH, f2mH, minted, ops, serial, runs, passWrites, prevPass, boot, calc, web>>

\* model.create({ _id: id, ...data, _syncedFrom: "firestore" }) when the key is
\* a valid ObjectId, model.create({ ...data, _syncedFrom: "firestore" })
\* otherwise; create rejects when a required path is missing or the _id is
\* taken.  Gives the step's outcome and the key written.
CreateOut(k, data) ==
  IF data.val = NoVal THEN "error"
  ELSE IF isValidObjectId(k) THEN (IF primary[k] # NoDoc THEN "error" ELSE "create")
  ELSE "mint"

\* (variant: the key is never passed to create)
CreateKeyMinted(k) == MintKey(minted + 1)
CreateKey(k) == IF isValidObjectId(k) THEN k ELSE MintKey(minted + 1)

Create(k, data, hop) ==
  IF CreateOut(k, data) = "error"
  THEN UNCHANGED <<primary, primFeed, minted>>
  ELSE /\ CreateOut(k, data) = "mint" => minted < MaxMint
       /\ minted' = IF CreateOut(k, data) = "mint" THEN minted + 1 ELSE minted
       /\ PrimInsert(CreateKey(k), data.val, "firestore", "f2m", hop)

\* model.findByIdAndUpdate(id, { ...data, _syncedFrom: "firestore" })
UpdateOut(k) == IF primary[k] = NoDoc THEN "noop" ELSE "update"

Update(k, data, hop) ==
  IF primary[k] = NoDoc
  THEN UNCHANGED <<primary, primFeed>>
  ELSE PrimUpdate(k, IF data.val = NoVal THEN primary[k].val ELSE data.val,
                  "firestore", "f2m", hop)

Wrote(out) == out \in {"create", "mint", "update", "delete", "set"}

F2MCreate ==
  /\ pc = "f2mCreate"
  /\ LET k == Head(scan).key
         data == cleanFirestoreDoc(Head(scan).doc)
     IN /\ Create(k, data, 1)
        /\ passWrites' = IF Wrote(CreateOut(k, data))
                         THEN [passWrites EXCEPT !.f2m = 1] ELSE passWrites
        /\ last' = Step("f2mBackfill", "create", k, "none", data._syncedFrom,
                        CreateOut(k, data), PrimHas(k))
  /\ scan' = Tail(scan)
  /\ pc' = "f2mFind"
  /\ UNCHANGED <<secondary, m2fAttached, f2mAttached, secFeed, m2fH, f2mH, ops,
                 serial, runs, prevPass, boot, calc, web>>

F2MUpdate ==
  /\ pc = "f2mUpdate"
  /\ LET k == Head(scan).key
         data == cleanFirestoreDoc(Head(scan).doc)
     IN /\ Update(k, data, 1)
        /\ passWrites' = IF Wrote(UpdateOut(k))
                         THEN [passWrites EXCEPT !.f2m = 1] ELSE passWrites
        /\ last' = Step("f2mBackfill", "update", k, "none", data._syncedFrom,
                        UpdateOut(k), primary[k] # NoDoc)
  /\ scan' = Tail(scan)
  /\ pc' = "f2mFind"
  /\ UNCHANGED <<secondary, m2fAttached, f2mAttached, secFeed, m2fH, f2mH, minted,
                 ops, serial, runs, prevPass, boot, calc, web>>

\* the first snapshot of a listener reports every document as "added"
RECURSIVE InitialAdded(_)
InitialAdded(docs) ==
  IF docs = <<>> THEN <<>>
  ELSE <<[type |-> "added", key |-> Head(docs).key, doc |-> Head(docs).doc,
          by |-> Head(docs).doc.by,
          hop |-> IF Head(docs).doc.by = "m2f" THEN 1 ELSE 0]>>
       \o InitialAdded(Tail(docs))

\* collectionRef.onSnapshot(...), reached when the loop over snapshot.docs
\* has ended
F2MListen ==
  /\ pc = "f2mFind"
  /\ scan = <<>>
  /\ f2mAttached' = TRUE
  /\ secFeed' = InitialAdded(DocsFrom(secondary, 1))
  /\ pc' = "running"
  /\ last' = Step("orch", "listen", "none", "none", "none", "none", FALSE)
  /\ UNCHANGED <<primary, secondary, scan, m2fAttached, primFeed, m2fH, f2mH,
                 minted, ops, serial, runs, passWrites, prevPass, boot, calc, web>>

\* -------------------------- syncModelToFirestore: changeStream.on("change")
\* The synchronous part of the handler of the next change event, up to its
\* first await:  if (fullDocument?._syncedFrom === "firestore") return;
\* then insert issues ref.set, update/replace issues model.findById, delete
\* issues ref.delete.  full: the record the handler holds (fullDocument, then
\* updatedDoc); payload: the argument of the ref.set it has issued
M2FEcho(e) == e.full # NoDoc /\ e.full._syncedFrom = "firestore"

M2FHandler(e) ==
  [op |-> e.op, key |-> e.key, by |-> e.by, hop |-> e.hop,
   pc |-> CASE e.op = "insert" -> "set"
            [] e.op = "update" -> "fetch"
            [] e.op = "delete" -> "delete",
   full |-> e.full,
   payload |-> IF e.op = "insert" THEN MongoStamp(e.full) ELSE NoDoc]

M2FDispatch ==
  /\ m2fAttached
  /\ primFeed # <<>>
  /\ primFeed' = Tail(primFeed)
  /\ LET e == Head(primFeed)
     IN IF M2FEcho(e)
        THEN /\ m2fH' = m2fH
             /\ last' = Step("m2fLive", e.op, e.key, e.by, e.full._syncedFrom,
                             "skip", secondary[e.key] # NoDoc)
        ELSE /\ m2fH' = Append(m2fH, M2FHandler(e))
             /\ last' = Step("m2fLive", e.op, e.key, e.by,
                             IF e.full = NoDoc THEN "none" ELSE e.full._syncedFrom,
                             "start", secondary[e.key] # NoDoc)
  /\ UNCHANGED <<primary, secondary, pc, scan, m2fAttached, f2mAttached, secFeed,
                 f2mH, minted, ops, serial, runs, passWrites, prevPass, boot, calc, web>>

\* const updatedDoc = await model.findById(id).lean();
\* if (updatedDoc?._syncedFrom === "firestore") return;
\* (variant: the record of the event is used and nothing is re-read)
M2FFetchPayload(i) ==
  /\ i \in 1..Len(m2fH)
  /\ m2fH[i].pc = "fetch"
  /\ LET h == m2fH[i]
         updatedDoc == h.full
     IN IF updatedDoc # NoDoc /\ updatedDoc._syncedFrom = "firestore"
        THEN /\ m2fH' = RemoveAt(m2fH, i)
             /\ last' = Step("m2fLive", h.op, h.key, h.by, "firestore", "skip",
                             secondary[h.key] # NoDoc)
        ELSE /\ m2fH' = ReplaceAt(m2fH, i,
                          [h EXCEPT !.pc = "set", !.full = updatedDoc,
                                     !.payload = MongoStamp(updatedDoc)])
             /\ last' = Step("m2fLive", h.op, h.key, h.by,
                             cleanDocument(updatedDoc)._syncedFrom, "fetch",
                             secondary[h.key] # NoDoc)
  /\ UNCHANGED <<primary, secondary, pc, scan, m2fAttached, f2mAttached, primFeed,
                 secFeed, f2mH, minted, ops, serial, runs, passWrites, prevPass, boot, calc, web>>

M2FFetch(i) ==
  /\ i \in 1..Len(m2fH)
  /\ m2fH[i].pc = "fetch"
  /\ LET h == m2fH[i]
         updatedDoc == primary[h.key]
     IN IF updatedDoc # NoDoc /\ updatedDoc._syncedFrom = "firestore"
        THEN /\ m2fH' = RemoveAt(m2fH, i)
             /\ last' = Step("m2fLive", h.op, h.key, h.by, "firestore", "skip",
                             secondary[h.key] # NoDoc)
        ELSE /\ m2fH' = ReplaceAt(m2fH, i,
                          [h EXCEPT !.pc = "set", !.full = updatedDoc,
                                     !.payload = MongoStamp(updatedDoc)])
             /\ last' = Step("m2fLive", h.op, h.key, h.by,
                             cleanDocument(updatedDoc)._syncedFrom, "fetch",
                             secondary[h.key] # NoDoc)
  /\ UNCHANGED <<primary, secondary, pc, scan, m2fAttached, f2mAttached, primFeed,
                 secFeed, f2mH, minted, ops, serial, runs, passWrites, prevPass, boot, calc, web>>

\* await ref.set({ ...cleanDocument(doc), _syncedFrom: "mongo" })
M2FLiveSet(i) ==
  /\ i \in 1..Len(m2fH)
  /\ m2fH[i].pc = "set"
  /\ SecWrite(m2fH[i].key, m2fH[i].payload, "m2f", m2fH[i].hop + 1)
  /\ m2fH' = RemoveAt(m2fH, i)
  /\ last' = Step("m2fLive", m2fH[i].op, m2fH[i].key, m2fH[i].by, "none", "set",
                  secondary[m2fH[i].key] # NoDoc)
  /\ UNCHANGED <<primary, pc, scan, m2fAttached, f2mAttached, primFeed, f2mH,
                 minted, ops, serial, runs, passWrites, prevPass, boot, calc, web>>

\* await ref.delete()
M2FLiveDelete(i) ==
  /\ i \in 1..Len(m2fH)
  /\ m2fH[i].pc = "delete"
  /\ SecWrite(m2fH[i].key, NoDoc, "m2f", m2fH[i].hop + 1)
  /\ m2fH' = RemoveAt(m2fH, i)
  /\ last' = Step("m2fLive", "delete", m2fH[i].key, m2fH[i].by, "none", "delete",
                  secondary[m2fH[i].key] # NoDoc)
  /\ UNCHANGED <<primary, pc, scan, m2fAttached, f2mAttached, primFeed, f2mH,
                 minted, ops, serial, runs, passWrites, prevPass, boot, calc, web>>

\* ------------------------------ syncFirestoreToMongo: onSnapshot docChanges
\* The synchronous part of the handler of the next docChange, up to its first
\* await:  if (rawData._syncedFrom === "mongo") return;  then added issues
\* model.findById, modified issues model.findById when the key is a valid
\* ObjectId, removed issues model.findByIdAndDelete when it is
\* (variant: no provenance check)
F2MEchoNever(e) == FALSE
F2MEcho(e) == e.doc._syncedFrom = "mongo"

\* (variant: a modified event of a key that is no ObjectId is handled as added)
F2MFirstPcModifiedCreates(e) ==
  CASE e.type = "added" -> "find"
    [] e.type = "modified" -> IF isValidObjectIdLive(e.key) THEN "find" ELSE "create"
    [] e.type = "removed" -> IF isValidObjectIdLive(e.key) THEN "delete" ELSE "done"
F2MFirstPc(e) ==
  CASE e.type = "added" -> "find"
    [] e.type = "modified" -> IF isValidObjectIdLive(e.key) THEN "find" ELSE "done"
    [] e.type = "removed" -> IF isValidObjectIdLive(e.key) THEN "delete" ELSE "done"

F2MDispatch ==
  /\ f2mAttached
  /\ secFeed # <<>>
  /\ F2MEcho(Head(secFeed)) \/ ~cleanFirestoreDocThrows(Head(secFeed).doc)
  /\ secFeed' = Tail(secFeed)
  /\ LET e == Head(secFeed)
         had == PrimHas(e.key)
     IN IF F2MEcho(e)
        THEN /\ f2mH' = f2mH
             /\ last' = Step("f2mLive", e.type, e.key, e.by, e.doc._syncedFrom,
                             "skip", had)
        ELSE IF F2MFirstPc(e) = "done"
        THEN /\ f2mH' = f2mH
             /\ last' = Step("f2mLive", e.type, e.key, e.by, e.doc._syncedFrom,
                             "noop", had)
        ELSE /\ f2mH' = Append(f2mH, [type |-> e.type, key |-> e.key, by |-> e.by,
                                      hop |-> e.hop, pc |-> F2MFirstPc(e),
                                      data |-> cleanFirestoreDoc(e.doc)])
             /\ last' = Step("f2mLive", e.type, e.key, e.by, e.doc._syncedFrom,
                             "start", had)
  /\ UNCHANGED <<primary, secondary, pc, scan, m2fAttached, f2mAttached, primFeed,
                 m2fH, minted, ops, serial, runs, passWrites, prevPass, boot, calc, web>>

\* const existing = await model.findById(id)   (added and modified)
\* (variant: added updates an existing record, as the backfill loop does)
F2MAddedPcUpserts(existing) == IF existing THEN "update" ELSE "create"
\* case "added": if (!existing) { create } break;
F2MAddedPc(existing) == IF existing THEN "done" ELSE "create"

F2MLiveFind(i) ==
  /\ i \in 1..Len(f2mH)
  /\ f2mH[i].pc = "find"
  /\ LET h == f2mH[i]
     IN IF ~CastsToObjectId(h.key)
        THEN /\ f2mH' = RemoveAt(f2mH, i)
             /\ last' = Step("f2mLive", h.type, h.key, h.by, h.data._syncedFrom,
                             "error", FALSE)
        ELSE IF h.type = "added" /\ F2MAddedPc(PrimHas(h.key)) = "done"
        THEN /\ f2mH' = RemoveAt(f2mH, i)
             /\ last' = Step("f2mLive", h.type, h.key, h.by, h.data._syncedFrom,
                             "exists", TRUE)
        ELSE IF h.type = "modified" /\ ~PrimHas(h.key)
        THEN /\ f2mH' = RemoveAt(f2mH, i)
             /\ last' = Step("f2mLive", h.type, h.key, h.by, h.data._syncedFrom,
                             "noop", FALSE)
        ELSE /\ f2mH' = ReplaceAt(f2mH, i,
                          [h EXCEPT !.pc = IF h.type = "added"
                                           THEN F2MAddedPc(PrimHas(h.key))
                                           ELSE "update"])
             /\ last' = Step("f2mLive", h.type, h.key, h.by, h.data._syncedFrom,
                             "found", PrimHas(h.key))
  /\ UNCHANGED <<primary, secondary, pc, scan, m2fAttached, f2mAttached, primFeed,
                 secFeed, m2fH, minted, ops, serial, runs, passWrites, prevPass, boot, calc, web>>

\* await model.create(...)   (added, no existing record)
F2MLiveCreate(i) ==
  /\ i \in 1..Len(f2mH)
  /\ f2mH[i].pc = "create"
  /\ Create(f2mH[i].key, f2mH[i].data, f2mH[i].hop + 1)
  /\ f2mH' = RemoveAt(f2mH, i)
  /\ last' = Step("f2mLive", f2mH[i].type, f2mH[i].key, f2mH[i].by,
                  f2mH[i].data._syncedFrom, CreateOut(f2mH[i].key, f2mH[i].data),
                  PrimHas(f2mH[i].key))
  /\ UNCHANGED <<secondary, pc, scan, m2fAttached, f2mAttached, secFeed, m2fH,
                 ops, serial, runs, passWrites, prevPass, boot, calc, web>>

\* await model.findByIdAndUpdate(id, ...)   (modified, existing record)
F2MLiveUpdate(i) ==
  /\ i \in 1..Len(f2mH)
  /\ f2mH[i].pc = "update"
  /\ Update(f2mH[i].key, f2mH[i].data, f2mH[i].hop + 1)
  /\ f2mH' = RemoveAt(f2mH, i)
  /\ last' = Step("f2mLive", f2mH[i].type, f2mH[i].key, f2mH[i].by,
                  f2mH[i].data._syncedFrom, UpdateOut(f2mH[i].key),
                  primary[f2mH[i].key] # NoDoc)
  /\ UNCHANGED <<secondary, pc, scan, m2fAttached, f2mAttached, secFeed, m2fH,
                 minted, ops, serial, runs, passWrites, prevPass, boot, calc, web>>

\* await model.findByIdAndDelete(id)   (removed, valid key)
F2MLiveDelete(i) ==
  /\ i \in 1..Len(f2mH)
  /\ f2mH[i].pc = "delete"
  /\ IF primary[f2mH[i].key] = NoDoc
     THEN UNCHANGED <<primary, primFeed>>
     ELSE PrimDelete(f2mH[i].key, "f2m", f2mH[i].hop + 1)
  /\ f2mH' = RemoveAt(f2mH, i)
  /\ last' = Step("f2mLive", "removed", f2mH[i].key, f2mH[i].by,
                  f2mH[i].data._syncedFrom,
                  IF primary[f2mH[i].key] = NoDoc THEN "noop" ELSE "delete",
                  primary[f2mH[i].key] # NoDoc)
  /\ UNCHANGED <<secondary, pc, scan, m2fAttached, f2mAttached, secFeed, m2fH,
                 minted, ops, serial, runs, passWrites, prevPass, boot, calc, web>>

\* ------------------------------------------------------- specifications
Backfill ==
  \/ M2FFind \/ M2FGet \/ M2FSet \/ M2FWatch
  \/ F2MGet \/ F2MFind \/ F2MCreate \/ F2MUpdate \/ F2MListen

Live ==
  \/ M2FDispatch
  \/ \E i \in 1..Len(m2fH) : M2FFetch(i) \/ M2FLiveSet(i) \/ M2FLiveDelete(i)
  \/ F2MDispatch
  \/ \E i \in 1..Len(f2mH) :
       F2MLiveFind(i) \/ F2MLiveCreate(i) \/ F2MLiveUpdate(i) \/ F2MLiveDelete(i)

Next == LocalWrite \/ Backfill \/ Live

Spec == Init /\ [][Next]_vars

\* ---------------------------------------------- the backfill passes alone
\* The process is started on stores that already hold records, runs its
\* backfill passes, and is stopped and started again before a live event is
\* dispatched (the feeds keep no cursor: pending events are lost).
StoredPrimary ==
  {[k \in PKeys |-> IF k \in K THEN PRec(k, 1, "none") ELSE NoDoc] : K \in SUBSET HexKeys}

StoredDocs(k) ==
  IF k \in HexKeys
  THEN {NoDoc, SDoc(k, 1, "mongo", "m2f")} \cup {SDoc("none", v, "none", "local") : v \in Vals}
  ELSE IF k \in TextKeys THEN {NoDoc, SDoc("none", 1, "none", "local")}
  ELSE {NoDoc}

StoredSecondary == {f \in [SKeys -> UNION {StoredDocs(k) : k \in SKeys}] :
                      \A k \in SKeys : f[k] \in StoredDocs(k)}

InitStored ==
  /\ primary \in StoredPrimary
  /\ secondary \in StoredSecondary
  /\ pc = "m2fFind"
  /\ scan = <<>>
  /\ m2fAttached = FALSE
  /\ f2mAttached = FALSE
  /\ primFeed = <<>>
  /\ secFeed = <<>>
  /\ m2fH = <<>>
  /\ f2mH = <<>>
  /\ minted = 0
  /\ ops = 0
  /\ serial = TRUE
  /\ runs = 1
  /\ passWrites = NoPass
  /\ prevPass = NoDoc
  /\ last = NoStep
  /\ boot = BootInit
  /\ calc = NoCalc
  /\ web = NoWeb

\* the process is stopped and server.js runs again
Restart ==
  /\ pc = "running"
  /\ runs < MaxRuns
  /\ runs' = runs + 1
  /\ prevPass' = [primary |-> primary, secondary |-> secondary]
  /\ passWrites' = NoPass
  /\ pc' = "m2fFind"
  /\ scan' = <<>>
  /\ m2fAttached' = FALSE
  /\ f2mAttached' = FALSE
  /\ primFeed' = <<>>
  /\ secFeed' = <<>>
  /\ m2fH' = <<>>
  /\ f2mH' = <<>>
  /\ last' = Step("orch", "restart", "none", "none", "none", "none", FALSE)
  /\ UNCHANGED <<primary, secondary, minted, ops, serial, boot, calc, web>>

NextBackfill == Backfill \/ Restart

SpecBackfill == InitStored /\ [][NextBackfill]_vars

\* ------------------------------------------- both replicators streaming
\* a client document that fails the validation of the primary schema (a
\* required path is missing): model.create rejects it, so it stays untagged
\* and without a primary record
InvalidDoc == SDoc("none", NoVal, "none", "local")

\* States at rest after startup: both subscriptions are open and nothing is
\* pending.  h2 is absent or a replicated pair, h3 absent or an invalid client
\* document, t17 absent or a client document under a non-ObjectId key.
InitLive ==
  /\ \E a \in BOOLEAN, b \in BOOLEAN, c \in BOOLEAN :
       /\ primary = [k \in PKeys |->
                       IF k = "h2" /\ a THEN PRec("h2", 1, "none") ELSE NoDoc]
       /\ secondary = [k \in SKeys |->
                         CASE k = "h2" /\ a -> MongoStamp(PRec("h2", 1, "none"))
                           [] k = "h3" /\ b -> InvalidDoc
                           [] k = "t17" /\ c -> SDoc("none", 1, "none", "local")
                           [] OTHER -> NoDoc]
  /\ pc = "running"
  /\ scan = <<>>
  /\ m2fAttached = TRUE
  /\ f2mAttached = TRUE
  /\ primFeed = <<>>
  /\ secFeed = <<>>
  /\ m2fH = <<>>
  /\ f2mH = <<>>
  /\ minted = 0
  /\ ops = 0
  /\ serial = TRUE
  /\ runs = 1
  /\ passWrites = NoPass
  /\ prevPass = NoDoc
  /\ last = NoStep
  /\ boot = BootInit
  /\ calc = NoCalc
  /\ web = NoWeb

NextLive == LocalWrite \/ Live

SpecLive == InitLive /\ [][NextLive]_vars

\* one local write, then the replicators alone; the event loop runs every
\* pending callback and every settled await
SingleWrite == ops = 0 /\ LocalWrite

NextSingle == SingleWrite \/ Live

SpecSingle == InitLive /\ [][NextSingle]_vars /\ WF_vars(Live)

\* ------------------------------------------ documents that cannot be cleaned
\* a client stores a document with a reference-typed field
CyclicWrite == \E k \in ClientKeys : LocalSecondarySet(k, RefVal, "none")

\* Backfill: cleanFirestoreDoc(doc) stands before the try of the loop body
\* (part_000 55), so its exception leaves syncFirestoreToMongo; the catch of
\* startFirestoreToMongoSync logs it and startup goes on to app.listen with
\* the rest of the scan not processed and onSnapshot never called
F2MScanThrows ==
  /\ pc = "f2mFind"
  /\ scan # <<>>
  /\ Head(scan).doc._syncedFrom # "mongo"
  /\ cleanFirestoreDocThrows(Head(scan).doc)
  /\ scan' = <<>>
  /\ pc' = "running"
  /\ last' = Step("f2mBackfill", "find", Head(scan).key, "none",
                  Head(scan).doc._syncedFrom, "throw", PrimHas(Head(scan).key))
  /\ UNCHANGED <<primary, secondary, m2fAttached, f2mAttached, primFeed, secFeed,
                 m2fH, f2mH, minted, ops, serial, runs, passWrites, prevPass, boot, calc, web>>

\* Live: cleanFirestoreDoc(doc) stands before the try of the handler
\* (part_000 95), so the promise of the un-awaited async function rejects with
\* no handler.  What an unhandled rejection does depends on the runtime: it
\* ends the process (the default since Node 15) or is only reported.
F2MLiveThrows(exits) ==
  /\ f2mAttached
  /\ secFeed # <<>>
  /\ ~F2MEcho(Head(secFeed))
  /\ cleanFirestoreDocThrows(Head(secFeed).doc)
  /\ IF exits
     THEN /\ pc' = "exited"
          /\ m2fAttached' = FALSE
          /\ f2mAttached' = FALSE
          /\ primFeed' = <<>>
          /\ secFeed' = <<>>
          /\ m2fH' = <<>>
          /\ f2mH' = <<>>
     ELSE /\ secFeed' = Tail(secFeed)
          /\ UNCHANGED <<pc, m2fAttached, f2mAttached, primFeed, m2fH, f2mH>>
  /\ last' = Step("f2mLive", Head(secFeed).type, Head(secFeed).key,
                  Head(secFeed).by, Head(secFeed).doc._syncedFrom, "throw",
                  PrimHas(Head(secFeed).key))
  /\ UNCHANGED <<primary, secondary, scan, minted, ops, serial, runs, passWrites,
                 prevPass, boot, calc, web>>

NextFault ==
  \/ LocalWrite
  \/ CyclicWrite
  \/ Backfill
  \/ Live
  \/ F2MScanThrows
  \/ \E exits \in BOOLEAN : F2MLiveThrows(exits)

SpecFault == Init /\ [][NextFault]_vars

\* --------------------------------------- the start functions on three bindings
dataVars == <<primary, secondary, pc, scan, m2fAttached, f2mAttached, primFeed,
              secFeed, m2fH, f2mH, minted, ops, serial, runs, passWrites,
              prevPass, last>>

\* await model.find().lean() / await collectionRef.get() resolves with n records
BootScan(n) ==
  /\ boot.dir \in Dirs
  /\ boot.phase = "scan"
  /\ boot' = [boot EXCEPT !.phase = "loop", !.left = n, !.logged = 0,
                          !.status[boot.dir][boot.idx] = "backfill"]
  /\ UNCHANGED <<dataVars, calc, web>>

\* (variant: the start function has no catch: the rejection reaches the try
\* of server.js, which skips the start call after it)
AfterCatchRethrown(d) == "done"
\* catch (err) { console.error(...) } of the start function of direction d:
\* the function returns and the host goes on to its next await
AfterCatch(d) == NextDir(d)

\* the same await rejects (the store cannot be reached): the error leaves
\* syncModelToFirestore / syncFirestoreToMongo and reaches the one catch of the
\* start function, which logs it and returns; the awaits after it are not run
BootScanThrows ==
  /\ boot.dir \in Dirs
  /\ boot.phase = "scan"
  /\ boot' = [boot EXCEPT !.dir = AfterCatch(boot.dir), !.idx = 1, !.left = 0,
                          !.logged = 0,
                          !.status[boot.dir][boot.idx] = "failed"]
  /\ UNCHANGED <<dataVars, calc, web>>

\* one record of the loop: it is synced, or its error is caught and logged
\* inside the loop
BootRecord(ok) ==
  /\ boot.dir \in Dirs
  /\ boot.phase = "loop"
  /\ boot.left > 0
  /\ boot' = [boot EXCEPT !.left = boot.left - 1,
                          !.logged = IF ok THEN boot.logged ELSE boot.logged + 1]
  /\ UNCHANGED <<dataVars, calc, web>>

\* one record of the secondary->primary loop whose cleanFirestoreDoc throws:
\* the call stands before the try of the loop body, so the exception leaves
\* syncFirestoreToMongo and reaches the catch of startFirestoreToMongoSync
BootRecordThrows ==
  /\ boot.dir = "f2m"
  /\ boot.phase = "loop"
  /\ boot.left > 0
  /\ boot' = [boot EXCEPT !.dir = AfterCatch(boot.dir), !.idx = 1, !.phase = "scan",
                          !.left = 0, !.logged = 0,
                          !.status[boot.dir][boot.idx] = "aborted"]
  /\ UNCHANGED <<dataVars, calc, web>>

\* model.watch() ... .on("change") / collectionRef.onSnapshot after the loop;
\* the function returns and the start function goes on to its next await, or
\* returns after the last one
BootAttach ==
  /\ boot.dir \in Dirs
  /\ boot.phase = "loop"
  /\ boot.left = 0
  /\ boot' = [boot EXCEPT !.status[boot.dir][boot.idx] = "attached",
                          !.phase = "scan", !.logged = 0,
                          !.idx = IF boot.idx < Len(Bindings) THEN boot.idx + 1 ELSE 1,
                          !.dir = IF boot.idx < Len(Bindings) THEN boot.dir
                                  ELSE NextDir(boot.dir)]
  /\ UNCHANGED <<dataVars, calc, web>>

\* app.listen(PORT, ...)
BootServe ==
  /\ boot.dir = "done"
  /\ ~boot.listening
  /\ boot' = [boot EXCEPT !.listening = TRUE]
  /\ UNCHANGED <<dataVars, calc, web>>

\* the guard of BootScan for sync (d, i): its scan is the next await
BootCanStart(d, i) == boot.dir = d /\ boot.idx = i /\ boot.phase = "scan"

\* the start function of direction d has returned
BootReturned(d) == IF d = "m2f" THEN boot.dir # "m2f" ELSE boot.dir = "done"

NextStart ==
  \/ \E n \in 0..MaxDocs : BootScan(n)
  \/ BootScanThrows
  \/ \E ok \in BOOLEAN : BootRecord(ok)
  \/ BootRecordThrows
  \/ BootAttach
  \/ BootServe

SpecStart == Init /\ [][NextStart]_vars

\* ------------------------------------- stored documents, writes and restarts
\* The process is started on a secondary store that holds a document whose
\* key is no ObjectId, next to records with ObjectId keys; a client removes
\* and rewrites that document while the process runs, and the process is
\* stopped and started again.
TextKey == CHOOSE k \in TextKeys : TRUE

InitText ==
  /\ InitStored
  /\ secondary[TextKey] # NoDoc
  /\ \A k \in PKeys \ {"h2"} : primary[k] = NoDoc
  /\ \A k \in SKeys \ {"h1", TextKey} : secondary[k] = NoDoc
  /\ secondary["h1"] \in {NoDoc, SDoc("none", 1, "none", "local")}

ClientWrite ==
  \/ \E v \in Vals : LocalSecondarySet(TextKey, v, "none")
  \/ LocalSecondaryDelete(TextKey)

NextText == ClientWrite \/ Backfill \/ Live \/ Restart

SpecText == InitText /\ [][NextText]_vars

\* ------------------------------------------------ the conversions on their own
\* a conversion about to be applied to an argument
Call(fn, arg) == [fn |-> fn, arg |-> arg, res |-> Num("0"), done |-> FALSE]

Calls ==
  {Call("cleanDocument", r) : r \in Records}
  \cup {Call("cleanFirestoreDoc", d) : d \in FireDocs}
  \cup {Call("isValidObjectId", Text(k)) : k \in DocKeys}

InitConv == InitStores /\ calc \in Calls /\ web = NoWeb

\* syncModelToFirestore and the change handler hand a lean record to
\* cleanDocument
ApplyCleanDocument ==
  /\ calc.fn = "cleanDocument" /\ ~calc.done
  /\ calc' = [calc EXCEPT !.res = cleanDocumentDeep(calc.arg), !.done = TRUE]
  /\ UNCHANGED <<dataVars, boot, web>>

\* the backfill loop and the docChange handler hand a snapshot to
\* cleanFirestoreDoc
ApplyCleanFirestoreDoc ==
  /\ calc.fn = "cleanFirestoreDoc" /\ ~calc.done
  /\ calc' = [calc EXCEPT !.res = cleanFirestoreDocDeep(calc.arg),
                          !.done = TRUE]
  /\ UNCHANGED <<dataVars, boot, web>>

\* the backfill loop and the docChange handler test the key of a document
ApplyKeyTest ==
  /\ calc.fn = "isValidObjectId" /\ ~calc.done
  /\ calc' = [calc EXCEPT
                !.res = Obj(<<Entry("backfill",
                                    Bool(BackfillKeyTest(CharsOf(calc.arg)))),
                              Entry("live",
                                    Bool(LiveKeyTest(CharsOf(calc.arg))))>>),
                !.done = TRUE]
  /\ UNCHANGED <<dataVars, boot, web>>

NextConv == ApplyCleanDocument \/ ApplyCleanFirestoreDoc \/ ApplyKeyTest

SpecConv == InitConv /\ [][NextConv]_vars

\* ===================================================================== claims
Range(s) == {s[i] : i \in 1..Len(s)}

M2FScanPcs == {"m2fFind", "m2fGet", "m2fSet"}
F2MScanPcs == {"f2mGet", "f2mFind", "f2mCreate", "f2mUpdate"}

\* C1: every document the primary->secondary replicator (backfill or live)
\* writes into the secondary store carries _syncedFrom = "mongo", the
\* added/modified docChange of that write carries it too, and the
\* secondary->primary replicator discards that docChange: no handler that
\* could create or update a primary record is started for it.
C1_PrimaryEchoDiscarded ==
  /\ (last.actor \in {"m2fBackfill", "m2fLive"} /\ last.out = "set")
       => /\ secondary[last.key] # NoDoc
          /\ secondary[last.key]._syncedFrom = "mongo"
  /\ \A e \in Range(secFeed) :
       (e.by = "m2f" /\ e.type \in {"added", "modified"}) => e.doc._syncedFrom = "mongo"
  /\ \A h \in Range(f2mH) : h.by = "m2f" => h.type = "removed"
  /\ (last.actor = "f2mLive" /\ last.by = "m2f" /\ last.type \in {"added", "modified"})
       => last.out = "skip"

C1_Witness ==
  /\ last.actor = "f2mLive" /\ last.by = "m2f"
  /\ last.type \in {"added", "modified"} /\ last.out = "skip"

\* C2: for a change event produced by a write of the secondary->primary
\* replicator (insert or update) the primary->secondary replicator performs
\* no write on the secondary store.
C2_SecondaryEchoDiscarded ==
  ~(/\ last.actor = "m2fLive" /\ last.by = "f2m"
    /\ last.type \in {"insert", "update"} /\ last.out = "set")

\* C3 as stated: an event read from store X whose record carries the tag of X
\* itself ("firestore" on a docChange, "mongo" on a change event) is discarded.
C3_SameTagDiscarded ==
  /\ (last.actor = "f2mLive" /\ last.tag = "firestore") => last.out = "skip"
  /\ (last.actor = "m2fLive" /\ last.tag = "mongo") => last.out = "skip"

\* C3 as amended: an event read from store X whose record carries the tag of
\* the other store ("mongo" on a docChange of any type, "firestore" on the
\* payload of a change event or on the re-fetched record) is discarded: the
\* handler ends at that check, and no handler holding such a record is in
\* flight.
C3_OppositeTagDiscarded ==
  /\ (last.actor = "f2mLive" /\ last.tag = "mongo") => last.out = "skip"
  /\ (last.actor = "m2fLive" /\ last.tag = "firestore") => last.out = "skip"
  /\ \A h \in Range(f2mH) : h.data._syncedFrom # "mongo"

C3_Witness ==
  /\ last.actor = "f2mLive" /\ last.tag = "mongo" /\ last.out = "skip"
  /\ last.by \in {"local", "localTagged"}

\* C4: the event of a local create or update (issued without a tag, one at a
\* time) is never discarded by the provenance check of a Live Replicator.
C4_LocalWritePropagates ==
  (/\ serial
   /\ last.actor \in {"f2mLive", "m2fLive"} /\ last.by = "local"
   /\ last.type \in {"added", "modified", "insert", "update"})
    => last.out # "skip"

\* the stores hold the same payload under k, or neither holds a record
SameFields(k) ==
  \/ primary[k] = NoDoc /\ secondary[k] = NoDoc
  \/ /\ primary[k] # NoDoc /\ secondary[k] # NoDoc
     /\ primary[k].val = secondary[k].val

\* C5: when every local write was issued at rest (nothing pending, nothing in
\* flight, startup over) and the system is at rest again, the two stores hold
\* the same field values under every primary key, or no record.
C5_Convergence == (serial /\ Quiescent) => \A k \in PKeys : SameFields(k)

\* C6: the event of a local delete is never discarded: a removed docChange
\* with a grammar-valid key starts the delete of the primary record, a delete
\* change event starts the delete of the secondary document.
C6_DeletePropagates ==
  (/\ serial
   /\ last.by = "local"
   /\ \/ last.actor = "f2mLive" /\ last.type = "removed" /\ isValidObjectId(last.key)
      \/ last.actor = "m2fLive" /\ last.type = "delete")
    => last.out \in {"start", "delete", "noop"}

\* C7: the backfill passes of a second start, on stores no one else wrote to,
\* perform no write and leave both stores as the first start left them.
C7_SecondRunIdle ==
  (runs = 2 /\ pc = "running")
    => /\ passWrites = NoPass
       /\ primary = prevPass.primary
       /\ secondary = prevPass.secondary

\* C8: a backfill pass writes a destination record only where none existed:
\* a record that exists in the destination is left as it is.
C8_ExistingLeftUnchanged ==
  (last.actor \in {"m2fBackfill", "f2mBackfill"} /\ Wrote(last.out)) => ~last.had

\* C9: replicating an untagged secondary document whose key is not a valid
\* ObjectId (backfill or added event) ends without a failure.
C9_KeyFallback ==
  (/\ last.actor \in {"f2mBackfill", "f2mLive"}
   /\ last.type \in {"find", "create", "added"}
   /\ ~isValidObjectId(last.key))
    => last.out # "error"

\* C10: in each direction the listener is registered only when the backfill
\* scan of that direction is over: during the scan nothing is attached, no
\* event is pending or being handled, and a live step is only taken after it.
C10_BackfillBeforeLive ==
  /\ pc \in M2FScanPcs => (~m2fAttached /\ primFeed = <<>> /\ m2fH = <<>>)
  /\ (pc = "m2fGet" /\ scan # <<>>) => ~m2fAttached
  /\ pc \in M2FScanPcs \cup F2MScanPcs
       => (~f2mAttached /\ secFeed = <<>> /\ f2mH = <<>>)
  /\ last.actor = "m2fLive" => pc \notin M2FScanPcs
  /\ last.actor = "f2mLive" => pc = "running"

C10_Witness ==
  /\ last.actor = "f2mLive" /\ passWrites.f2m = 1 /\ passWrites.m2f = 1

\* C11: when the start of one binding's sync has failed, the sync of every
\* other binding of that direction is still started: once the start function
\* of the direction has returned, each of them is attached
C11_IsolatedFailureDomains ==
  \A d \in Dirs :
    BootReturned(d) =>
      \A i \in 1..Len(Bindings) :
        boot.status[d][i] = "failed" =>
          \A j \in 1..Len(Bindings) \ {i} : boot.status[d][j] = "attached"

\* C12: within one feed the change events are handled one at a time: no two
\* handlers of the change stream, and no two handlers of the snapshot
\* listener, are in flight together
C12_OneHandlerAtATime == Len(m2fH) <= 1 /\ Len(f2mH) <= 1

\* every pending event is at most two replication writes away from the local
\* write that started its chain, and no handler acts on an event that is two
\* writes away
HopBound ==
  /\ \A i \in 1..Len(primFeed) : primFeed[i].hop <= 2
  /\ \A i \in 1..Len(secFeed) : secFeed[i].hop <= 2
  /\ \A i \in 1..Len(m2fH) : m2fH[i].hop <= 1
  /\ \A i \in 1..Len(f2mH) : f2mH[i].hop <= 1

\* C13: after a single local write and no further local write the replicators
\* perform finitely many replication writes (the chain of writes it causes
\* ends after two) and the system comes to rest with no event pending and no
\* handler in flight
C13_NoPropagationLoop == []HopBound /\ <>[]Drained

\* the chain of a local write has ended with the echo being discarded
C13_Witness ==
  /\ ops = 1 /\ Drained
  /\ last.actor = "f2mLive" /\ last.by = "m2f" /\ last.out = "skip"

\* C14: when the handler of an insert event of the change stream has done
\* its write, the secondary store holds a document at the string form of the
\* inserted record's key, with _syncedFrom "mongo", id equal to the key and
\* the field values of the inserted record
C14_InsertReplicated ==
  [][\A i \in 1..Len(m2fH) :
       (/\ m2fH[i].op = "insert" /\ m2fH[i].pc = "set"
        /\ m2fH' = RemoveAt(m2fH, i)
        /\ last'.actor = "m2fLive" /\ last'.out = "set"
        /\ last'.key = m2fH[i].key)
       => LET k == m2fH[i].key
          IN /\ k = m2fH[i].full._id
             /\ secondary'[k] # NoDoc
             /\ secondary'[k].id = k
             /\ secondary'[k].val = m2fH[i].full.val
             /\ secondary'[k]._syncedFrom = "mongo"]_vars

\* an insert made by the backend has been replicated
C14_Witness ==
  /\ last.actor = "m2fLive" /\ last.type = "insert" /\ last.by = "local"
  /\ last.out = "set"
  /\ secondary[last.key] # NoDoc /\ secondary[last.key]._syncedFrom = "mongo"

\* C15: the handler of an update event re-reads the record by key (what it
\* holds after the read is the stored record of that moment) and then
\* overwrites the secondary document with that record, normalized and with
\* _syncedFrom "mongo"
C15_UpdateRereads ==
  [][\A i \in 1..Len(m2fH) :
       /\ (/\ m2fH[i].op = "update" /\ m2fH[i].pc = "fetch"
           /\ Len(m2fH') = Len(m2fH) /\ m2fH'[i].pc = "set"
           /\ last'.actor = "m2fLive" /\ last'.out = "fetch")
          => m2fH'[i].full = primary[m2fH[i].key]
       /\ (/\ m2fH[i].op = "update" /\ m2fH[i].pc = "set"
           /\ m2fH[i].full # NoDoc
           /\ m2fH' = RemoveAt(m2fH, i)
           /\ last'.actor = "m2fLive" /\ last'.out = "set"
           /\ last'.key = m2fH[i].key)
          => LET k == m2fH[i].key
             IN /\ secondary'[k] # NoDoc
                /\ secondary'[k].id = k
                /\ secondary'[k].val = m2fH[i].full.val
                /\ secondary'[k]._syncedFrom = "mongo"]_vars

\* an update made by the backend has been replicated with the stored value
C15_Witness ==
  /\ last.actor = "m2fLive" /\ last.type = "update" /\ last.by = "local"
  /\ last.out = "set"
  /\ PrimHas(last.key) /\ secondary[last.key] # NoDoc
  /\ secondary[last.key].val = primary[last.key].val
  /\ secondary[last.key]._syncedFrom = "mongo"

\* C16: when a primary record has been updated and then deleted and both
\* events have been handled (no change event is pending, no change handler
\* is in flight), the secondary store holds no document at its key
C16_DeletionTerminal ==
  (/\ primFeed = <<>> /\ m2fH = <<>>
   /\ last.actor = "m2fLive" /\ last.by = "local"
   /\ last.type \in {"update", "delete"}
   /\ ~PrimHas(last.key))
  => secondary[last.key] = NoDoc

F2MActors == {"f2mBackfill", "f2mLive"}

\* C17: every record a replicator has written carries, as stored, the tag of
\* the store it was replicated from: "mongo" on the documents the
\* primary->secondary replicator wrote, "firestore" on the records the
\* secondary->primary replicator created or updated
C17_ProvenanceStamped ==
  /\ \A k \in SKeys :
       (secondary[k] # NoDoc /\ secondary[k].by = "m2f")
       => secondary[k]._syncedFrom = "mongo"
  /\ (last.actor \in F2MActors /\ last.out \in {"create", "update"})
     => (PrimHas(last.key) /\ primary[last.key]._syncedFrom = "firestore")

\* C18: a step of the secondary->primary replicator (backfill or added
\* event) that creates a record for a document whose key is a valid ObjectId
\* and has no primary record creates it under that key: no other record
\* changes and no key is minted
C18_ValidKeyKept ==
  [][(/\ last'.actor \in F2MActors
      /\ last'.type \in {"create", "added"}
      /\ last'.out \in {"create", "mint", "error"}
      /\ isValidObjectId(last'.key)
      /\ primary[last'.key] = NoDoc)
     => (/\ last'.out = "create"
         /\ primary'[last'.key] # NoDoc
         /\ primary'[last'.key]._id = last'.key
         /\ \A j \in PKeys \ {last'.key} : primary'[j] = primary[j]
         /\ minted' = minted)]_vars

\* a record has been created under the key of its secondary document
C18_Witness ==
  /\ last.actor \in F2MActors /\ last.out = "create"
  /\ last.key \in HexKeys
  /\ PrimHas(last.key) /\ primary[last.key]._id = last.key
  /\ minted = 0

\* C19: a step that handles a modified or removed docChange whose key is not
\* a valid ObjectId leaves the primary store as it is (no record created,
\* updated or deleted, no key minted) and issues no operation on it
C19_InvalidKeyNoop ==
  [][(/\ last'.actor = "f2mLive"
      /\ last'.type \in {"modified", "removed"}
      /\ ~isValidObjectId(last'.key))
     => (/\ primary' = primary /\ minted' = minted /\ primFeed' = primFeed
         /\ f2mH' = f2mH)]_vars

\* a modified and a removed docChange of such a key have been handled
C19_Witness ==
  /\ last.actor = "f2mLive" /\ last.type \in {"modified", "removed"}
  /\ last.key \in TextKeys /\ last.out = "noop"

\* C20: when the handler of an added or modified docChange with a valid
\* ObjectId key that is no echo has finished, with no other local write in
\* between, the primary record at that key exists and holds the document's
\* field values
C20_SecondarySymmetric ==
  (/\ serial
   /\ last.actor = "f2mLive" /\ last.type \in {"added", "modified"}
   /\ isValidObjectId(last.key) /\ last.tag # "mongo"
   /\ last.out \in {"exists", "noop", "create", "update", "error"}
   /\ secondary[last.key] # NoDoc)
  => (PrimHas(last.key) /\ primary[last.key].val = secondary[last.key].val)

LiveActors == {"m2fLive", "f2mLive"}

\* C21: a failure while a live change event is handled (normalization,
\* lookup or write) is caught: after it both subscriptions are still open
\* and the process is still running, so later events are handled
C21_LiveFailureCaught ==
  (last.actor \in LiveActors /\ last.out \in {"error", "throw"})
  => (pc = "running" /\ m2fAttached /\ f2mAttached)

\* C22: a failure on one record of a backfill scan skips only that record:
\* the scan goes on with the records after it, and when startup is over the
\* snapshot listener of the collection is attached
C22_ScanFailureSkipsRecord ==
  /\ [][(last'.actor = "f2mBackfill" /\ last'.out \in {"error", "throw"})
        => scan' = Tail(scan)]_vars
  /\ [](pc = "running" => (m2fAttached /\ f2mAttached))

Syncs == {<<d, i>> : d \in Dirs, i \in 1..Len(Bindings)}

\* C23: bindings and directions start independently: while the backfill of
\* one sync is in progress, every sync that has not started yet can start
\* (no backfill has to wait for another one)
C23_StartIndependently ==
  (\E s \in Syncs : boot.status[s[1]][s[2]] = "backfill")
  => \A t \in Syncs :
       boot.status[t[1]][t[2]] = "idle" => BootCanStart(t[1], t[2])

\* C24: when startup is over and no scan was rejected by a store, every
\* collection has its subscription in each direction (six for the three
\* collections)
C24_SixSubscriptions ==
  (/\ boot.dir = "done"
   /\ \A s \in Syncs : boot.status[s[1]][s[2]] # "failed")
  => \A s \in Syncs : boot.status[s[1]][s[2]] = "attached"


RECURSIVE NoInternalField(_)
\* no mapping inside x has an _id or a __v key
NoInternalField(x) ==
  /\ x.t = "obj" => Keys(x) \cap {"_id", "__v"} = {}
  /\ \A i \in 1..Len(x.e) : NoInternalField(x.e[i].v)

RECURSIVE Tokenized(_, _)
\* y is x with every reference replaced by its string and everything else as
\* it was: dates stay dates, sequences keep their order and mappings their
\* keys (the internal fields aside)
Tokenized(x, y) ==
  CASE x.t = "oid" -> y = Str(x.s)
    [] x.t \in {"arr", "obj"} ->
         LET xs == Omit(x.e, {"_id", "__v"})
             ys == Omit(y.e, {"_id", "__v"})
         IN  /\ y.t = x.t /\ Len(ys) = Len(xs)
             /\ \A i \in 1..Len(xs) :
                  ys[i].k = xs[i].k /\ Tokenized(xs[i].v, ys[i].v)
    [] OTHER -> y = x

\* C25: the document cleanDocument returns for a record has no _id and no __v
\* at any nesting level, its id is the string of the record's _id, and it is
\* otherwise the record with every reference at any depth replaced by its
\* string, dates kept as dates, order and keys preserved
C25_DestinationShape ==
  (calc.fn = "cleanDocument" /\ calc.done)
  => /\ calc.res.t = "obj"
     /\ "id" \in Keys(calc.res)
     /\ Get(calc.res, "id") = Str(Get(calc.arg, "_id").s)
     /\ NoInternalField(calc.res)
     /\ Tokenized(calc.arg, Obj(Omit(calc.res.e, {"id"})))

\* C26: the record cleanFirestoreDoc returns for a document is the document
\* without its top-level id field: string _id and createdBy fields are the
\* same strings, sequences and mappings keep their elements and keys, and
\* every other value, a timestamp included, is the value it was
C26_OriginShape ==
  (calc.fn = "cleanFirestoreDoc" /\ calc.done)
  => /\ "id" \notin Keys(calc.res)
     /\ calc.res = Obj(Omit(calc.arg.e, {"id"}))

\* C27: the key test accepts a key exactly when it is 24 characters long and
\* every character is one of the 22 hexadecimal digits, and the test of the
\* backfill loop and the test of the docChange handler give the same answer
\* for the same key
C27_KeyValidation ==
  (calc.fn = "isValidObjectId" /\ calc.done)
  => LET id == CharsOf(calc.arg)
         hex == /\ Len(id) = ObjectIdLen
                /\ \A i \in 1..Len(id) : id[i] \in HexDigits
     IN  /\ Get(calc.res, "backfill") = Bool(hex)
         /\ Get(calc.res, "live") = Bool(hex)

\* a key with digits of both cases was tested and accepted
C27_Witness ==
  /\ calc.fn = "isValidObjectId" /\ calc.done
  /\ Get(calc.res, "live") = Bool(TRUE)
  /\ \E i, j \in 1..Len(calc.arg.e) :
       calc.arg.e[i].v.s = "F" /\ calc.arg.e[j].v.s = "b"

\* C28: a step of the secondary->primary backfill on a document tagged
\* "mongo" only skips it: it makes no lookup and no write, so the primary
\* store, the minted keys and the change feed are as before and the loop is at
\* the next document; a record absent from the primary store stays absent
C28_TaggedSkippedBeforeLookup ==
  [][(last'.actor = "f2mBackfill" /\ Head(scan).doc._syncedFrom = "mongo")
       => /\ last'.out = "skip"
          /\ scan' = Tail(scan) /\ pc' = "f2mFind"
          /\ primary' = primary /\ minted' = minted /\ primFeed' = primFeed]_vars

\* the backfill skipped a tagged document whose primary record is gone
C28_Witness ==
  /\ last.actor = "f2mBackfill" /\ last.out = "skip" /\ last.tag = "mongo"
  /\ ~last.had
  /\ primary[last.key] = NoDoc /\ secondary[last.key] # NoDoc

\* C29: a step of the docChange handler for an added event, whether of the
\* first snapshot of the subscription or of a later one, leaves the primary
\* record at the event's key as it is when one exists there
C29_AddedKeepsExisting ==
  [][(/\ last'.actor = "f2mLive" /\ last'.type = "added"
      /\ PrimHas(last'.key))
       => primary' = primary]_vars

\* an added event of the first snapshot found the record the backfill had
\* created and did nothing
C29_Witness ==
  /\ last.actor = "f2mLive" /\ last.type = "added" /\ last.out = "exists"
  /\ last.by = "local" /\ ops = 1 /\ passWrites.f2m = 1
  /\ primary[last.key] # NoDoc

C31_ReplicaKeyedById ==
  \A k \in SKeys :
    (secondary[k] # NoDoc /\ secondary[k].by = "m2f")
    => /\ k \in PKeys
       /\ secondary[k].id = k
       /\ secondary[k].val # NoVal

\* C32: no error raised while a binding is started leaves a start function:
\* when the host is at the step that starts the HTTP server both start
\* functions have been called, the secondary->primary syncs are started only
\* when the primary->secondary start function has returned, and until the
\* server is started the startup always has a next step
C32_StartNeverFails ==
  /\ boot.dir = "done" => \A d \in Dirs : boot.status[d][1] # "idle"
  /\ (\E i \in 1..Len(Bindings) : boot.status["f2m"][i] # "idle")
       => BootReturned("m2f")
  /\ ~boot.listening => ENABLED NextStart

\* the server was started after a scan had been rejected in one direction
\* and an exception had left a loop in the other
C32_Witness ==
  /\ boot.listening
  /\ \E i \in 1..Len(Bindings) : boot.status["m2f"][i] = "failed"
  /\ \E i \in 1..Len(Bindings) : boot.status["f2m"][i] = "aborted"

\* ------------------------------------------- registration by one-time passcode
\* return res.status(status).json(...): the handler of request i ends
Respond(i, status) ==
  [web EXCEPT !.hs[i].pc = "done", !.hs[i].seen = NoPending,
              !.out = [op |-> web.hs[i].op, status |-> status,
                       arg |-> web.hs[i].arg, seen |-> web.hs[i].seen]]

\* a request reaches a route: register-resend-otp with a pendingId,
\* register-verify with a pendingId and a passcode, register with the email
\* and studentID of the pending registration
Receive ==
  /\ web.reqs < MaxReqs
  /\ \E h \in {Handler("resend", "none"), Handler("register", "none")}
            \cup {Handler("verify", c) : c \in Codes} :
       web' = [web EXCEPT !.hs = Append(@, h), !.reqs = @ + 1]
  /\ UNCHANGED <<dataVars, boot, calc>>

\* the clock passes a minute after the last send, then otpExpiresAt
Elapse ==
  /\ web.pend.exists
  /\ web.pend.age \in {"fresh", "cool"}
  /\ web' = [web EXCEPT !.pend.age = IF @ = "fresh" THEN "cool" ELSE "expired"]
  /\ UNCHANGED <<dataVars, boot, calc>>

\* const pending = await PendingRegistration.findById(pendingId) and the tests
\* on what was read, up to the handler's next await; the new passcode is
\* Math.random's
ResendFind(i) ==
  /\ web.hs[i].op = "resend" /\ web.hs[i].pc = "find"
  /\ \E c \in Codes :
       web' =
         IF ~web.pend.exists THEN Respond(i, 404)
         ELSE IF web.pend.age = "expired"
           THEN [web EXCEPT !.hs[i].pc = "expire", !.hs[i].seen = web.pend]
         ELSE IF web.pend.age = "fresh" THEN Respond(i, 429)
         ELSE IF web.pend.resendCount >= ResendMax THEN Respond(i, 429)
         ELSE [web EXCEPT !.hs[i].pc = "save", !.hs[i].arg = c,
                          !.hs[i].seen = web.pend]
  /\ UNCHANGED <<dataVars, boot, calc>>

\* await PendingRegistration.findByIdAndDelete(pendingId).catch(() => {}) and
\* the response after it: 410 for a record read expired (either route), 409
\* for a Student found, 200 after Student.create
PendingDelete(i) ==
  /\ web.hs[i].pc \in {"expire", "dup", "delete"}
  /\ web' = [Respond(i, CASE web.hs[i].pc = "expire" -> 410
                          [] web.hs[i].pc = "dup" -> 409
                          [] OTHER -> 200)
               EXCEPT !.pend = NoPending]
  /\ UNCHANGED <<dataVars, boot, calc>>

\* await pending.save(): the four paths the handler assigned are $set on the
\* stored document, resendCount to the count read plus one; a document deleted
\* since makes save reject, and the catch answers 500
ResendSave(i) ==
  /\ web.hs[i].op = "resend" /\ web.hs[i].pc = "save"
  /\ web' =
       IF ~web.pend.exists THEN Respond(i, 500)
       ELSE [web EXCEPT !.pend = Pending(web.hs[i].arg, "fresh",
                                         web.hs[i].seen.resendCount + 1),
                        !.hs[i].pc = "send"]
  /\ UNCHANGED <<dataVars, boot, calc>>

\* await sendOtpEmail(pending.email, otpCode): 200, or the catch's 500 when
\* the mail is refused
ResendSend(i) ==
  /\ web.hs[i].op = "resend" /\ web.hs[i].pc = "send"
  /\ \/ web' = [Respond(i, 200) EXCEPT !.resent = @ + 1]
     \/ web' = Respond(i, 500)
  /\ UNCHANGED <<dataVars, boot, calc>>

\* (variant: register-verify without the test of otpExpiresAt)
VerifyAfterFindNoExpiry(pending) == "compare"
\* if (pending.otpExpiresAt < new Date()) of register-verify
VerifyAfterFind(pending) ==
  IF pending.age = "expired" THEN "expire" ELSE "compare"

\* const pending = await PendingRegistration.findById(pendingId) of
\* register-verify and the tests on what was read
VerifyFind(i) ==
  /\ web.hs[i].op = "verify" /\ web.hs[i].pc = "find"
  /\ web' =
       IF ~web.pend.exists THEN Respond(i, 404)
       ELSE [web EXCEPT !.hs[i].seen = web.pend,
                        !.hs[i].pc = VerifyAfterFind(web.pend)]
  /\ UNCHANGED <<dataVars, boot, calc>>

\* const otpMatches = await bcrypt.compare(otp, pending.otpHash): the hash is
\* the one the handler read
VerifyCompare(i) ==
  /\ web.hs[i].op = "verify" /\ web.hs[i].pc = "compare"
  /\ web' = IF web.hs[i].arg # web.hs[i].seen.otp THEN Respond(i, 400)
            ELSE [web EXCEPT !.hs[i].pc = "student"]
  /\ UNCHANGED <<dataVars, boot, calc>>

\* const existingStudent = await Student.findOne({ $or: [...] })
VerifyFindStudent(i) ==
  /\ web.hs[i].op = "verify" /\ web.hs[i].pc = "student"
  /\ web' = [web EXCEPT !.hs[i].pc = IF web.student THEN "dup" ELSE "create"]
  /\ UNCHANGED <<dataVars, boot, calc>>

\* Student.js requires securityQuestion and securityAnswer: a route's
\* Student.create passes validation only if it gives them, as register does
\* and register-verify does not
CreateValid(op) == op = "register"

\* const newStudent = await Student.create({...}): validation first, then the
\* insert under the unique indexes on email and studentID; either rejection
\* reaches the catch, which answers 500
VerifyCreate(i) ==
  /\ web.hs[i].op = "verify" /\ web.hs[i].pc = "create"
  /\ web' = IF ~CreateValid("verify") \/ web.student THEN Respond(i, 500)
            ELSE [web EXCEPT !.student = TRUE, !.made = @ + 1,
                             !.hs[i].pc = "delete"]
  /\ UNCHANGED <<dataVars, boot, calc>>

\* POST /register with the same email and studentID: the two findOne, then
\* Student.create under the unique indexes; a duplicate key (error.code
\* 11000) answers 400
Register(i) ==
  /\ web.hs[i].op = "register" /\ web.hs[i].pc \in {"find", "create"}
  /\ web' = IF web.student THEN Respond(i, 400)
            ELSE IF web.hs[i].pc = "find" THEN [web EXCEPT !.hs[i].pc = "create"]
            ELSE IF ~CreateValid("register") THEN Respond(i, 500)
            ELSE [Respond(i, 200) EXCEPT !.student = TRUE]
  /\ UNCHANGED <<dataVars, boot, calc>>

\* the state after register-init answered 200 and after n resends answered
\* 200 one after the other
InitRegister ==
  /\ InitStores
  /\ calc = NoCalc
  /\ \E c \in Codes, n \in 0..ResendMax :
       web = [NoWeb EXCEPT !.pend = Pending(c, "fresh", n), !.resent = n]

Route ==
  \E i \in 1..MaxReqs :
    /\ i <= Len(web.hs)
    /\ \/ ResendFind(i) \/ ResendSave(i) \/ ResendSend(i)
       \/ VerifyFind(i) \/ VerifyCompare(i) \/ VerifyFindStudent(i)
       \/ VerifyCreate(i) \/ PendingDelete(i) \/ Register(i)

SpecRegister == InitRegister /\ [][Receive \/ Elapse \/ Route]_vars

\* C33: for every pending registration at most 3 resend requests are answered
\* 200 (a new passcode issued and mailed) and the stored resendCount never
\* exceeds 3, in every interleaving of register-resend-otp requests on it.
C33_ResendBounded ==
  /\ web.resent <= ResendMax
  /\ web.pend.resendCount <= ResendMax

ConvertThrows(studentId) == studentId = "string"

\* POST /api/quiz-attempts reaches the route; the studentId of its body is a
\* 24-hex string, or an object Mongoose casts to an ObjectId
\* ({ _id: "<24 hex>" })
SubmitReceive ==
  /\ web.reqs < MaxReqs
  /\ \E s \in {"string", "object"} :
       web' = [web EXCEPT !.hs = Append(@, Handler("submit", s)),
                          !.reqs = @ + 1]
  /\ UNCHANGED <<dataVars, boot, calc>>

\* the conversion of studentId, then
\* const existingAttempt = await StudentTestAttempt.findOne({student, test})
SubmitFind(i) ==
  /\ web.hs[i].op = "submit" /\ web.hs[i].pc = "find"
  /\ web' = IF ConvertThrows(web.hs[i].arg) THEN Respond(i, 500)
            ELSE IF web.attempts > 0 THEN Respond(i, 400)
            ELSE [web EXCEPT !.hs[i].pc = "test"]
  /\ UNCHANGED <<dataVars, boot, calc>>

\* const test = await Test.findById(testId).lean()
SubmitFindTest(i) ==
  /\ web.hs[i].op = "submit" /\ web.hs[i].pc = "test"
  /\ web' = IF ~web.test THEN Respond(i, 404)
            ELSE [web EXCEPT !.hs[i].pc = "save"]
  /\ UNCHANGED <<dataVars, boot, calc>>

\* await attempt.save(): an insert; the schema has no unique index on
\* (student, test)
SubmitSave(i) ==
  /\ web.hs[i].op = "submit" /\ web.hs[i].pc = "save"
  /\ web' = [Respond(i, 201) EXCEPT !.attempts = @ + 1]
  /\ UNCHANGED <<dataVars, boot, calc>>

\* a (student, test) pair with no attempt, or with the one attempt an earlier
\* submission stored; the test exists or not
InitQuiz ==
  /\ InitStores
  /\ calc = NoCalc
  /\ \E n \in {0, 1}, t \in BOOLEAN :
       web = [NoWeb EXCEPT !.attempts = n, !.test = t]

Submit ==
  \E i \in 1..MaxReqs :
    /\ i <= Len(web.hs)
    /\ (SubmitFind(i) \/ SubmitFindTest(i) \/ SubmitSave(i))

SpecQuiz == InitQuiz /\ [][SubmitReceive \/ Submit]_vars

\* C35: at most one StudentTestAttempt record exists per (student, test) pair
\* through the submission route: a submission for a pair that has an attempt
\* stores nothing, also when two submissions are handled concurrently.
C35_OneAttemptPerPair ==
  web.attempts <= 1

====
